---- MODULE Spec2Model ----
(***************************************************************************)
(* A model of the Noddy history document model of pynoddy's history.py:    *)
(* NoddyHistory (load, determine_events, footer editing, event reordering, *)
(* write_history).  A text is a sequence of lines; a line is a record      *)
(*   [kind, txt, num, fmt]                                                 *)
(* kind says which literal label the line holds ("No of Events",           *)
(* "Event #", "#BlockOptions", "Origin X", ...), txt and num its payload   *)
(* and fmt the exact spelling (spacing, precision, line ending), so that   *)
(* two lines are equal exactly when their bytes are equal.                  *)
(* Numbers with decimals are integers in thousandths (50.00 is 50000).     *)
(***************************************************************************)
EXTENDS Integers, Sequences, FiniteSets, TLC

VARIABLES
  input,          \* the text of the history file given to NoddyHistory(file)
  pc,             \* "start": no object yet; "ready": object built; "error": the constructor raised
  src,            \* where the object came from: "none", "input", "file" (a written file), "new"
  history_lines,  \* self.history_lines
  events,         \* self.events, a dict: [keys |-> insertion order, at |-> key -> object id]
  heap,           \* the Event objects, by object id
  footer_lines,   \* self.footer_lines
  attrs,          \* the attributes the object has (hasattr): footer_lines, filename, n_events, event_counter
  n_events,       \* self.n_events
  event_counter,  \* self.event_counter
  filename,       \* self.filename
  file,           \* the file last written by write_history: [name, lines]
  clock,          \* time.localtime(), read by _create_header
  ret,            \* what the last call returned or raised
  nops,           \* number of calls made on the object so far
  geom,           \* self.origin_x/y/z, self.extent_x/y/z, self.cube_size
  before          \* history variable: the arguments of the last call (a, b, or the
                  \* reorder_dict m; for add_event a = event_num, b = 1 if it was given)
                  \* and, for swap_events, events and heap before it

vars == <<input, pc, src, history_lines, events, heap, footer_lines, attrs,
          n_events, event_counter, filename, file, clock, ret, nops, geom, before>>

-----------------------------------------------------------------------------
(* Bounds *)

MaxEvents == 2
MaxBlank == 3
MaxWrites == 2
MaxOps == 3
MaxFaults == 3
MaxLayers == 2
MaxPoints == 2

-----------------------------------------------------------------------------
(* Lines *)

L(kind, txt, num, fmt) == [kind |-> kind, txt |-> txt, num |-> num, fmt |-> fmt]

Blank == L("blank", "", 0, "lf")
FilenameLine(name, fmt) == L("filename", name, 0, fmt)
DateLine(t) == L("date", "", t, "raw")
FileTypeLine == L("filetype", "", 111, "raw")
VersionLine(v) == L("version", "", v, "raw")
CountLine(n) == L("count", "", n, "tab")
EvHdr(n, type, fmt) == L("evhdr", type, n, fmt)
Prop(label, v, fmt) == L("prop", label, v, fmt)
Marker == L("marker", "#BlockOptions", 0, "raw")
Foot(label, v, fmt) == L("foot", label, v, fmt)

\* "No of Events" in line
HasNoOfEvents(line) == line.kind = "count"
\* "Event #" in line
HasEventHash(line) == line.kind = "evhdr"
\* "BlockOptions" in line
HasBlockOptions(line) == line.kind = "marker"
\* "#BlockOptions" in line
HasHashBlockOptions(line) == line.kind = "marker" /\ line.txt = "#BlockOptions"
\* line == "\n"
IsNewline(line) == line = Blank
\* label in line, for a footer label
HasLabel(line, label) == line.kind = "foot" /\ line.txt = label

Max(a, b) == IF a >= b THEN a ELSE b
Min(a, b) == IF a <= b THEN a ELSE b

\* Python's lines[a:b] for 0-based a, b (negative values count from the end)
PySlice(lines, a, b) ==
  LET n == Len(lines)
      norm(x) == IF x < 0 THEN Max(x + n, 0) ELSE Min(x, n)
  IN SubSeq(lines, norm(a) + 1, norm(b))

RECURSIVE Concat(_)
Concat(ss) == IF ss = <<>> THEN <<>> ELSE Head(ss) \o Concat(Tail(ss))

RECURSIVE SortedSeq(_)
SortedSeq(S) ==
  IF S = {} THEN <<>>
  ELSE LET m == CHOOSE x \in S : \A y \in S : x <= y
       IN <<m>> \o SortedSeq(S \ {m})

Range(s) == {s[i] : i \in 1..Len(s)}

-----------------------------------------------------------------------------
(* Python dicts: insertion-ordered keys and the value under each key *)

EmptyDict == [keys |-> <<>>, at |-> <<>>]
DictKeys(d) == Range(d.keys)
DictPut(d, k, v) ==
  IF k \in DictKeys(d)
  THEN [keys |-> d.keys, at |-> [x \in DictKeys(d) |-> IF x = k THEN v ELSE d.at[x]]]
  ELSE [keys |-> Append(d.keys, k),
        at |-> [x \in DictKeys(d) \cup {k} |-> IF x = k THEN v ELSE d.at[x]]]

-----------------------------------------------------------------------------
(* The Event codec of events.py: decode a line span into a typed record,   *)
(* renumber it, and re-encode its properties.                               *)

LayerLabels == {"Unit Name", "Height", "Density"}

PropIdx(lines) == {i \in 1..Len(lines) : lines[i].kind = "prop"}

\* every "<label> = <value>" line of the event itself, the first occurrence of a label counting
FirstIdx(lines, label) ==
  CHOOSE i \in PropIdx(lines) :
    /\ lines[i].txt = label
    /\ \A j \in PropIdx(lines) : lines[j].txt = label => i <= j

EventLabels(lines) == {lines[i].txt : i \in PropIdx(lines)} \ LayerLabels

DecodeProperties(lines) ==
  [lab \in EventLabels(lines) |-> lines[FirstIdx(lines, lab)].num]

\* the per-layer line blocks, each starting at a "Unit Name" line
LayerStarts(lines) ==
  SortedSeq({i \in PropIdx(lines) : lines[i].txt = "Unit Name"})

LayerSpan(lines, j) ==
  LET st == LayerStarts(lines)
      last == IF j < Len(st) THEN st[j + 1] - 1 ELSE Len(lines)
  IN {i \in st[j]..last : lines[i].kind = "prop" /\ lines[i].txt \in LayerLabels}

LayerLine(lines, j, lab) ==
  CHOOSE i \in LayerSpan(lines, j) :
    /\ lines[i].txt = lab
    /\ \A k \in LayerSpan(lines, j) : lines[k].txt = lab => i <= k

DecodeLayers(lines) ==
  [j \in 1..Len(LayerStarts(lines)) |->
     [lab \in {lines[i].txt : i \in LayerSpan(lines, j)} |->
        lines[LayerLine(lines, j, lab)].num]]

\* events.<Class>(lines=event_lines); "indexed" is the part of the properties
\* dictionary with integer keys, which no line of a text gives rise to
DecodeEvent(cls, tag, lines) ==
  [cls |-> cls, event_type |-> tag, event_lines |-> lines,
   properties |-> DecodeProperties(lines), layers |-> DecodeLayers(lines),
   indexed |-> << >>]

\* Event.set_event_number(num): rewrites the "Event #" line
set_event_number(ev, num) ==
  IF ev.event_lines = <<>> THEN ev
  ELSE [ev EXCEPT !.event_lines[1] = EvHdr(num, ev.event_type, "tab")]

\* the order number a record carries in its "Event #" line
EmbeddedNum(ev) == IF ev.event_lines = <<>> THEN 0 ELSE ev.event_lines[1].num

\* Event.update_properties(): a property line is rewritten only when the
\* property no longer has the value the line holds
update_properties(ev) ==
  LET lines == ev.event_lines
      stale(i) == /\ i \in PropIdx(lines)
                  /\ lines[i].txt \in DOMAIN ev.properties
                  /\ i = FirstIdx(lines, lines[i].txt)
                  /\ ev.properties[lines[i].txt] # lines[i].num
      owner(i) == {j \in 1..Len(ev.layers) :
                     /\ j <= Len(LayerStarts(lines))
                     /\ i \in LayerSpan(lines, j)
                     /\ lines[i].txt \in DOMAIN ev.layers[j]
                     /\ i = LayerLine(lines, j, lines[i].txt)}
      lstale(i) == \E j \in owner(i) : ev.layers[j][lines[i].txt] # lines[i].num
      lval(i) == ev.layers[CHOOSE j \in owner(i) : TRUE][lines[i].txt]
  IN [ev EXCEPT !.event_lines =
        [i \in 1..Len(lines) |->
           IF stale(i) THEN Prop(lines[i].txt, ev.properties[lines[i].txt], "tab")
           ELSE IF lstale(i) THEN Prop(lines[i].txt, lval(i), "tab")
           ELSE lines[i]]]

-----------------------------------------------------------------------------
(* Loading: get_footer_lines and determine_events *)

\* the classes determine_events knows, tried in this order; 'TAG' in e['type']
ClassChain ==
  << <<"FAULT", "Fault">>, <<"SHEAR_ZONE", "Shear">>, <<"FOLD", "Fold">>,
     <<"UNCONFORMITY", "Unconformity">>, <<"STRATIGRAPHY", "Stratigraphy">>,
     <<"TILT", "Tilt">>, <<"DYKE", "Dyke">>, <<"PLUG", "Plug">>, <<"STRAIN", "Strain">> >>

\* the type strings of the model are such that none contains another's tag
TypeHas(type, tag) == type = tag

Supported(type) == \E c \in 1..Len(ClassChain) : TypeHas(type, ClassChain[c][1])

ClassOf(type) ==
  ClassChain[CHOOSE c \in 1..Len(ClassChain) :
               /\ TypeHas(type, ClassChain[c][1])
               /\ \A d \in 1..(c - 1) : ~TypeHas(type, ClassChain[d][1])]

\* int(line[7:9]): the two characters after "Event #"
HeaderNum(n) ==
  IF n < 100 THEN n
  ELSE IF n < 1000 THEN n \div 10
  ELSE n \div 100

\* get_footer_lines: from the first "#BlockOptions" line on; without one the
\* loop variable ends at the last line.  An empty text leaves it unbound.
get_footer_lines(lines) ==
  LET hits == {i \in 1..Len(lines) : HasHashBlockOptions(lines[i])}
      i == IF hits = {} THEN Len(lines) ELSE CHOOSE x \in hits : \A y \in hits : x <= y
  IN IF lines = <<>> THEN [ok |-> FALSE, footer |-> <<>>]
     ELSE [ok |-> TRUE, footer |-> SubSeq(lines, i, Len(lines))]

\* the first loop of determine_events; positions are 0-based as in the code
CountIdx(lines) == {i \in 1..Len(lines) : HasNoOfEvents(lines[i])}
EventIdx(lines) ==
  {i \in 1..Len(lines) : ~HasNoOfEvents(lines[i]) /\ HasEventHash(lines[i])}
\* mutant: without a marker line the last line taken as the marker
MarkerIdx_fallback(lines) ==
  IF \E i \in 1..Len(lines) :
       ~HasNoOfEvents(lines[i]) /\ ~HasEventHash(lines[i]) /\ HasBlockOptions(lines[i])
  THEN {i \in 1..Len(lines) :
          ~HasNoOfEvents(lines[i]) /\ ~HasEventHash(lines[i]) /\ HasBlockOptions(lines[i])}
  ELSE {Len(lines)}

MarkerIdx(lines) ==
  {i \in 1..Len(lines) :
     ~HasNoOfEvents(lines[i]) /\ ~HasEventHash(lines[i]) /\ HasBlockOptions(lines[i])}

SetMax(S) == CHOOSE x \in S : \A y \in S : y <= x

\* mutant: the last event taken to end three lines before the marker
last_event_stop_short(lines) == (SetMax(MarkerIdx(lines)) - 1) - 3

last_event_stop(lines) == (SetMax(MarkerIdx(lines)) - 1) - 2

raw_events(lines) ==
  LET idx == SortedSeq(EventIdx(lines))
  IN [j \in 1..Len(idx) |->
        [type |-> lines[idx[j]].txt,
         num |-> HeaderNum(lines[idx[j]].num),
         line_start |-> idx[j] - 1,
         line_end |-> IF j < Len(idx) THEN (idx[j + 1] - 1) - 1
                      ELSE last_event_stop(lines)]]

event_lines_of(lines, e) == PySlice(lines, e.line_start, e.line_end + 1)

\* the second loop: one object per raw event of a known type, stored under its number
RECURSIVE BuildEvents(_, _, _, _)
BuildEvents(lines, raw, d, objs) ==
  IF raw = <<>> THEN [events |-> d, heap |-> objs]
  ELSE LET e == Head(raw)
       IN IF Supported(e.type)
          THEN LET c == ClassOf(e.type)
                   ev == DecodeEvent(c[2], c[1], event_lines_of(lines, e))
               IN BuildEvents(lines, Tail(raw), DictPut(d, e.num, Len(objs) + 1),
                              Append(objs, ev))
          ELSE BuildEvents(lines, Tail(raw), d, objs)

\* determine_events raises when there is no footer marker (last_event_stop is
\* unbound) or no event header (_raw_events[-1])
determine_events(lines) ==
  IF MarkerIdx(lines) = {} \/ EventIdx(lines) = {}
  THEN [ok |-> FALSE, events |-> EmptyDict, heap |-> <<>>, has_n |-> FALSE, n |-> 0]
  ELSE LET b == BuildEvents(lines, raw_events(lines), EmptyDict, <<>>)
       IN [ok |-> TRUE, events |-> b.events, heap |-> b.heap,
           has_n |-> CountIdx(lines) # {},
           n |-> IF CountIdx(lines) = {} THEN 0 ELSE lines[SetMax(CountIdx(lines))].num]

-----------------------------------------------------------------------------
(* Footer: the template and the footer field editor *)

\* mutant: the value cut off after two decimals
Round2_floor(v) == (v \div 10) * 10

\* "%.2f" % v and float() of the result: v to the nearest hundredth
Round2(v) == ((v + 5) \div 10) * 10

\* _Templates.footer as create_footer_from_template splits it (the settings
\* after the cube sizes are abridged to the next section's first lines)
create_footer_from_template ==
  << Blank, Marker,
     Foot("Number of Views", 1000, "tpl"), Foot("Current View", 0, "tpl"),
     Foot("NAME", 0, "tpl"),
     Foot("Origin X", 0, "tpl"), Foot("Origin Y", 0, "tpl"), Foot("Origin Z", 5000000, "tpl"),
     Foot("Length X", 10000000, "tpl"), Foot("Length Y", 7000000, "tpl"),
     Foot("Length Z", 5000000, "tpl"),
     Foot("Geology Cube Size", 50000, "tpl"), Foot("Geophysics Cube Size", 50000, "tpl"),
     Blank, Foot("#GeologyOptions", 0, "tpl"), Foot("Scale", 10000, "tpl"),
     Foot("End of Status Report", 0, "tpl") >>

-----------------------------------------------------------------------------
(* Writing: _create_header and write_history *)

\* _create_header: self.header_lines split at "\n", six lines
create_header(name, t) ==
  << FilenameLine(name, "sp"), DateLine(t), FileTypeLine, VersionLine(711), Blank, Blank >>

\* update_all_event_properties: every object the dict refers to
update_all_event_properties(d, objs) ==
  [o \in 1..Len(objs) |->
     IF \E k \in DictKeys(d) : d.at[k] = o THEN update_properties(objs[o]) ELSE objs[o]]

\* mutant: the count line written from the count read at load time
assemble_stale_count(name, t, d, objs, footer) ==
  create_header(name, t)
  \o << CountLine(n_events) >>
  \o Concat([j \in 1..Len(SortedSeq(DictKeys(d))) |-> objs[d.at[SortedSeq(DictKeys(d))[j]]].event_lines])
  \o footer

\* mutant: the events written in the dict's insertion order
assemble_insertion_order(name, t, d, objs, footer) ==
  create_header(name, t)
  \o << CountLine(Cardinality(DictKeys(d))) >>
  \o Concat([j \in 1..Len(d.keys) |-> objs[d.at[d.keys[j]]].event_lines])
  \o footer

\* the lines write_history assembles before it opens the file
assemble(name, t, d, objs, footer) ==
  LET ks == SortedSeq(DictKeys(d))
  IN create_header(name, t)
     \o << CountLine(Cardinality(DictKeys(d))) >>
     \o Concat([j \in 1..Len(ks) |-> objs[d.at[ks[j]]].event_lines])
     \o footer

\* mutant: the write loop without the separator line
emit_no_separator(lines) == lines

\* mutant: the write loop putting a "\n" before every BlockOptions line
emit_always_separator(lines) ==
  Concat([i \in 1..Len(lines) |->
            IF HasBlockOptions(lines[i]) THEN << Blank, lines[i] >> ELSE << lines[i] >>])

\* the write loop: a "\n" goes before a BlockOptions line whose predecessor
\* (history_lines[i - 1], the last line for i = 0) is not "\n"
emit(lines) ==
  Concat([i \in 1..Len(lines) |->
            LET prev == IF i = 1 THEN lines[Len(lines)] ELSE lines[i - 1]
            IN IF HasBlockOptions(lines[i]) /\ ~IsNewline(prev)
               THEN << Blank, lines[i] >>
               ELSE << lines[i] >>])

-----------------------------------------------------------------------------
(* Input texts *)

FileNames == {"a.his", "b.his"}

\* the k-th event block of a text: its header and its "<label> = <value>" lines
EvBlock(n, type, k) ==
  IF type = "STRATIGRAPHY"
  THEN << EvHdr(n, type, "tab"), Prop("Unit Name", k, "raw"),
          Prop("Height", 100 * k, "raw"), Prop("Name", k, "raw") >>
  ELSE << EvHdr(n, type, "tab"), Prop("X", 1000 * k, "raw"), Prop("Name", k, "raw") >>

\* a header as Noddy writes it, or as write_history writes it
TextHeader(h) ==
  IF h = "noddy"
  THEN << FilenameLine("orig.his", "raw"), DateLine(0), FileTypeLine, VersionLine(703), Blank >>
  ELSE create_header("a.his", 0)

\* a footer of a history file in the fixed format: the template minus its leading blank line
StdFooter == [i \in 1..(Len(create_footer_from_template) - 1) |->
                LET l == create_footer_from_template[i + 1]
                IN IF l.kind = "foot" THEN Foot(l.txt, l.num, "raw") ELSE l]

\* the "Event #N = TYPE" headers of the input texts: one-, two- and three-digit
\* numbers, a number used twice, a type without a decoder
EvHead(n, type) == [num |-> n, type |-> type]
EvHeads ==
  { EvHead(2, "STRATIGRAPHY"), EvHead(2, "FAULT"), EvHead(11, "FAULT"),
    EvHead(100, "FAULT"), EvHead(11, "IMPORT") }
EvLists == UNION {[1..n -> EvHeads] : n \in 0..MaxEvents}

MkText(h, evs, nb, footer) ==
  TextHeader(h)
  \o << CountLine(Len(evs)) >>
  \o Concat([k \in 1..Len(evs) |-> EvBlock(evs[k].num, evs[k].type, k)])
  \o [i \in 1..nb |-> Blank]
  \o footer

Texts ==
  {MkText(h, evs, nb, StdFooter) : h \in {"noddy", "pynoddy"}, evs \in EvLists, nb \in 0..MaxBlank}

-----------------------------------------------------------------------------
(* The object's life: construction and write_history *)

\* what a call returned: the call, whether it returned normally, the value
Ret(op, ok, val) == [op |-> op, ok |-> ok, val |-> val]
NoRet == Ret("none", TRUE, 0)
NoFile == [name |-> "", lines |-> <<>>]
NoGeom == [origin |-> <<0, 0, 0>>, extent |-> <<0, 0, 0>>, cube_size |-> 0]
NoBefore == [events |-> EmptyDict, heap |-> <<>>, a |-> 0, b |-> 0, m |-> <<>>]

InitObject ==
  /\ pc = "start"
  /\ src = "none"
  /\ history_lines = <<>>
  /\ events = EmptyDict
  /\ heap = <<>>
  /\ footer_lines = <<>>
  /\ attrs = {}
  /\ n_events = 0
  /\ event_counter = 0
  /\ filename = ""
  /\ file = NoFile
  /\ clock = 1
  /\ ret = NoRet
  /\ nops = 0
  /\ before = NoBefore
  /\ geom = NoGeom

\* NoddyHistory(history): load_history, get_footer_lines, determine_events
Construct(lines, from) ==
  LET f == get_footer_lines(lines)
      d == determine_events(lines)
  IN IF f.ok /\ d.ok
     THEN /\ pc' = "ready"
          /\ src' = from
          /\ history_lines' = lines
          /\ events' = d.events
          /\ heap' = d.heap
          /\ footer_lines' = f.footer
          /\ attrs' = {"footer_lines"} \cup (IF d.has_n THEN {"n_events"} ELSE {})
          /\ n_events' = d.n
          /\ ret' = Ret("load", TRUE, 0)
     ELSE /\ pc' = "error"
          /\ src' = "none"
          /\ history_lines' = <<>>
          /\ events' = EmptyDict
          /\ heap' = <<>>
          /\ footer_lines' = <<>>
          /\ attrs' = {}
          /\ n_events' = 0
          /\ ret' = Ret("load", FALSE, 0)

Load ==
  /\ pc = "start"
  /\ Construct(input, "input")
  /\ event_counter' = 0
  /\ filename' = ""
  /\ nops' = 0
  /\ before' = NoBefore
  /\ geom' = NoGeom
  /\ UNCHANGED <<input, file, clock>>

\* NoddyHistory(name) on the file write_history wrote last
Reload ==
  /\ pc = "ready"
  /\ file # NoFile
  /\ Construct(file.lines, "file")
  /\ event_counter' = 0
  /\ filename' = ""
  /\ nops' = 0
  /\ before' = NoBefore
  /\ geom' = NoGeom
  /\ UNCHANGED <<input, file, clock>>

\* write_history(filename)
WriteHistory(fn) ==
  /\ pc = "ready"
  /\ clock <= MaxWrites
  /\ nops < MaxOps
  /\ nops' = nops + 1
  /\ LET objs == update_all_event_properties(events, heap)
         name == IF "filename" \in attrs THEN filename ELSE fn
         footer == IF "footer_lines" \in attrs THEN footer_lines
                   ELSE create_footer_from_template
     IN /\ heap' = objs
        /\ filename' = name
        /\ footer_lines' = footer
        /\ attrs' = attrs \cup {"filename", "footer_lines"}
        /\ file' = [name |-> fn, lines |-> emit(assemble(name, clock, events, objs, footer))]
  /\ clock' = clock + 1
  /\ ret' = Ret("write_history", TRUE, 0)
  /\ before' = NoBefore
  /\ UNCHANGED <<geom, input, pc, src, history_lines, events, n_events, event_counter>>

-----------------------------------------------------------------------------
(* The event builder: add_event and the _create_* methods.  Options are a   *)
(* dict from option name to value; decimals are in thousandths.             *)

\* "%.1f" % v
Round1(v) == ((v + 50) \div 100) * 100

Has(opts, key) == key \in DOMAIN opts

\* the string 'top' where a z-coordinate is expected
Top == -2

\* "%.1f" % x raises TypeError for a string.  The test event_options['pos'] == 'top'
\* is false for a tuple, so (x, y, 'top') reaches "%.1f" % 'top'; when pos is the
\* string itself (its characters stand here as Top) "%.1f" % pos[0] has raised before.
PosIsNumeric(opts) == \A i \in 1..3 : opts["pos"][i] # Top

\* mutant: the thickness of the layer itself instead of the running sum
SumTo_single(s, i) == s[i]

\* np.cumsum(s)[i - 1]
RECURSIVE SumTo(_, _)
SumTo(s, i) == IF i = 0 THEN 0 ELSE s[i] + SumTo(s, i - 1)

\* the first of the keys, in the order the method reads them, that the dict lacks
MissingKey(opts, needed) ==
  \E i \in 1..Len(needed) : ~Has(opts, needed[i])

Built(cls, lines) == [ok |-> TRUE, ev |-> DecodeEvent(cls, "", lines)]

\* mutant: a builder that raised taken to have returned a record
BuildFailed_ignored == [ok |-> TRUE, ev |-> DecodeEvent("", "", <<>>)]

BuildFailed == [ok |-> FALSE, ev |-> DecodeEvent("", "", <<>>)]

\* _create_stratigraphy: "Num Layers", one block of _Templates.strati_layer
\* per layer, "Name = Strat"
create_stratigraphy(opts) ==
  IF ~Has(opts, "num_layers") THEN BuildFailed
  ELSE IF opts["num_layers"] > 0
          /\ (MissingKey(opts, <<"layer_names", "layer_thickness">>)
              \/ Len(opts["layer_names"]) < opts["num_layers"]
              \/ Len(opts["layer_thickness"]) < opts["num_layers"]
              \/ (Has(opts, "density") /\ Len(opts["density"]) < opts["num_layers"]))
       THEN BuildFailed
  ELSE Built("Stratigraphy",
         << Blank, Prop("Num Layers", opts["num_layers"], "tpl") >>
         \o Concat([i \in 1..opts["num_layers"] |->
              << Prop("Unit Name", opts["layer_names"][i], "tpl"),
                 Prop("Height", Round1(SumTo(opts["layer_thickness"], i)), "tpl"),
                 Prop("Density", IF Has(opts, "density") THEN opts["density"][i] ELSE 4000, "tpl") >>])
         \o << Prop("Name", 0, "tpl") >>)

\* the lines _Templates.fault / fold / tilt / unconformity share: position and name
PosLines(opts) ==
  << Prop("X", Round1(opts["pos"][1]), "tpl"), Prop("Y", Round1(opts["pos"][2]), "tpl"),
     Prop("Z", Round1(opts["pos"][3]), "tpl") >>

\* _create_fault
create_fault(opts) ==
  IF MissingKey(opts, <<"name", "pos", "dip_dir", "dip", "slip">>) THEN BuildFailed
  ELSE IF ~PosIsNumeric(opts) THEN BuildFailed
  ELSE Built("Fault",
         << Blank >> \o PosLines(opts)
         \o << Prop("Dip Direction", Round1(opts["dip_dir"]), "tpl"),
               Prop("Dip", Round1(opts["dip"]), "tpl"),
               Prop("Slip", Round1(opts["slip"]), "tpl"),
               Prop("Name", opts["name"], "tpl") >>)

\* _create_fold: the record is an events.Fault()
create_fold(opts) ==
  IF MissingKey(opts, <<"name", "pos", "wavelength", "amplitude">>) THEN BuildFailed
  ELSE IF ~PosIsNumeric(opts) THEN BuildFailed
  ELSE Built("Fault",
         << Blank >> \o PosLines(opts)
         \o << Prop("Dip Direction", Round1(IF Has(opts, "dip_dir") THEN opts["dip_dir"] ELSE 90000), "tpl"),
               Prop("Dip", Round1(IF Has(opts, "dip") THEN opts["dip"] ELSE 90000), "tpl"),
               Prop("Wavelength", Round1(opts["wavelength"]), "tpl"),
               Prop("Amplitude", Round1(opts["amplitude"]), "tpl"),
               Prop("Name", opts["name"], "tpl") >>)

\* _create_tilt
create_tilt(opts) ==
  IF MissingKey(opts, <<"name", "pos", "rotation", "plunge_direction", "plunge">>) THEN BuildFailed
  ELSE IF ~PosIsNumeric(opts) THEN BuildFailed
  ELSE Built("Tilt",
         << Blank >> \o PosLines(opts)
         \o << Prop("Rotation", Round1(opts["rotation"]), "tpl"),
               Prop("Plunge Direction", Round1(opts["plunge_direction"]), "tpl"),
               Prop("Plunge", Round1(opts["plunge"]), "tpl"),
               Prop("Name", opts["name"], "tpl") >>)

\* _create_unconformity: the template, then a stratigraphy block
create_unconformity(opts) ==
  IF MissingKey(opts, <<"name", "pos", "dip_direction", "dip", "num_layers">>) THEN BuildFailed
  ELSE IF ~PosIsNumeric(opts) THEN BuildFailed
  ELSE IF opts["num_layers"] > 0
          /\ (MissingKey(opts, <<"layer_names", "layer_thickness">>)
              \/ Len(opts["layer_names"]) < opts["num_layers"]
              \/ Len(opts["layer_thickness"]) < opts["num_layers"])
       THEN BuildFailed
  ELSE Built("Unconformity",
         << Blank >> \o PosLines(opts)
         \o << Prop("Dip Direction", Round1(opts["dip_direction"]), "tpl"),
               Prop("Dip", Round1(opts["dip"]), "tpl"),
               Prop("Num Layers", opts["num_layers"], "tpl") >>
         \o Concat([i \in 1..opts["num_layers"] |->
              << Prop("Unit Name", opts["layer_names"][i], "tpl"),
                 Prop("Height", Round1(SumTo(opts["layer_thickness"], i)), "tpl"),
                 Prop("Density", 0, "$DENSITY$") >>])
         \o << Prop("Name", opts["name"], "tpl") >>)

\* the dispatch of add_event: the builder and the event_type it sets
BuildEvent(type, opts) ==
  LET b == CASE type = "stratigraphy" -> create_stratigraphy(opts)
             [] type = "fault" -> create_fault(opts)
             [] type = "tilt" -> create_tilt(opts)
             [] type = "unconformity" -> create_unconformity(opts)
             [] type = "fold" -> create_fold(opts)
             [] OTHER -> BuildFailed
      tag == CASE type = "stratigraphy" -> "STRATIGRAPHY"
               [] type = "fault" -> "FAULT"
               [] type = "tilt" -> "TILT"
               [] type = "unconformity" -> "UNCONFORMITY"
               [] type = "fold" -> "FOLD"
               [] OTHER -> ""
  IN IF b.ok THEN [ok |-> TRUE, ev |-> [b.ev EXCEPT !.event_type = tag]] ELSE b

-----------------------------------------------------------------------------
(* Operations on the events mapping *)

\* update_event_numbers: set_event_number(key) on the record under every key, in dict order
RECURSIVE update_event_numbers_from(_, _, _)
update_event_numbers_from(d, objs, i) ==
  IF i > Len(d.keys) THEN objs
  ELSE LET k == d.keys[i]
           o == d.at[k]
       IN update_event_numbers_from(d, [objs EXCEPT ![o] = set_event_number(objs[o], k)], i + 1)

update_event_numbers(d, objs) == update_event_numbers_from(d, objs, 1)

\* the exchange swap_events makes
swapped(d, a, b) ==
  [keys |-> d.keys,
   at |-> [k \in DictKeys(d) |-> IF k = a THEN d.at[b] ELSE IF k = b THEN d.at[a] ELSE d.at[k]]]

\* mutant: the loop reading from the dict it is writing to
RECURSIVE reordered_in_place(_, _, _)
reordered_in_place(d, tmp, m) ==
  IF m = <<>> THEN tmp
  ELSE IF Head(m)[1] \in DictKeys(tmp)
       THEN reordered_in_place(d, DictPut(tmp, Head(m)[2], tmp.at[Head(m)[1]]), Tail(m))
       ELSE reordered_in_place(d, tmp, Tail(m))

\* the loop of reorder_events over reorder_dict.items(): tmp_events[value] = self.events[key]
RECURSIVE reordered(_, _, _)
reordered(d, tmp, m) ==
  IF m = <<>> THEN tmp
  ELSE LET key == Head(m)[1]
           value == Head(m)[2]
       IN IF key \in DictKeys(d)
          THEN reordered(d, DictPut(tmp, value, d.at[key]), Tail(m))
          ELSE reordered(d, tmp, Tail(m))

\* create_new_history
CreateNew ==
  /\ pc = "start"
  /\ pc' = "ready"
  /\ src' = "new"
  /\ event_counter' = 0
  /\ history_lines' = <<>>
  /\ events' = EmptyDict
  /\ heap' = <<>>
  /\ attrs' = {"event_counter"}
  /\ ret' = Ret("create_new_history", TRUE, 0)
  /\ before' = NoBefore
  /\ geom' = NoGeom
  /\ UNCHANGED <<input, footer_lines, n_events, filename, file, clock, nops>>

\* mutant: the counter handed out without being advanced
get_ev_counter_stuck(c) == c

\* get_ev_counter: self.event_counter += 1; return self.event_counter
get_ev_counter(c) == c + 1

\* add_event(event_type, event_options, event_num=num) (has_num) or
\* add_event(event_type, event_options); get_ev_counter() runs in both cases
AddEvent(type, opts, has_num, num) ==
  /\ pc = "ready"
  /\ nops < MaxOps
  /\ nops' = nops + 1
  /\ IF "event_counter" \notin attrs
     THEN /\ ret' = Ret("add_event", FALSE, 0)
          /\ UNCHANGED <<event_counter, events, heap>>
     ELSE LET event_num == IF has_num THEN num ELSE get_ev_counter(event_counter)
              b == BuildEvent(type, opts)
          IN /\ event_counter' = get_ev_counter(event_counter)
             /\ IF b.ok
                THEN /\ heap' = Append(heap, set_event_number(b.ev, event_num))
                     /\ events' = DictPut(events, event_num, Len(heap) + 1)
                     /\ ret' = Ret("add_event", TRUE, event_num)
                ELSE /\ ret' = Ret("add_event", FALSE, 0)
                     /\ UNCHANGED <<events, heap>>
  /\ before' = [NoBefore EXCEPT !.a = IF has_num THEN num ELSE 0, !.b = IF has_num THEN 1 ELSE 0]
  /\ UNCHANGED <<geom, input, pc, src, history_lines, footer_lines, attrs, n_events, filename, file, clock>>

\* swap_events(a, b)
SwapEvents(a, b) ==
  /\ pc = "ready"
  /\ nops < MaxOps
  /\ nops' = nops + 1
  /\ IF a \in DictKeys(events) /\ b \in DictKeys(events)
     THEN /\ events' = swapped(events, a, b)
          /\ heap' = update_event_numbers(swapped(events, a, b), heap)
          /\ ret' = Ret("swap_events", TRUE, 0)
     ELSE /\ ret' = Ret("swap_events", FALSE, 0)
          /\ UNCHANGED <<events, heap>>
  /\ before' = [events |-> events, heap |-> heap, a |-> a, b |-> b, m |-> <<>>]
  /\ UNCHANGED <<geom, input, pc, src, history_lines, footer_lines, attrs, n_events,
                 event_counter, filename, file, clock>>

\* reorder_events(reorder_dict); m lists the dict's items in iteration order
ReorderEvents(m) ==
  /\ pc = "ready"
  /\ nops < MaxOps
  /\ nops' = nops + 1
  /\ events' = reordered(events, events, m)
  /\ heap' = update_event_numbers(reordered(events, events, m), heap)
  /\ ret' = Ret("reorder_events", TRUE, 0)
  /\ before' = [NoBefore EXCEPT !.m = m]
  /\ UNCHANGED <<geom, input, pc, src, history_lines, footer_lines, attrs, n_events,
                 event_counter, filename, file, clock>>

\* set_event_params({k: {p: v}}) for a property name p
SetEventParams(k, p, v) ==
  /\ pc = "ready"
  /\ nops < MaxOps
  /\ nops' = nops + 1
  /\ IF k \in DictKeys(events)
     THEN LET o == events.at[k]
              old == heap[o].properties
          IN /\ heap' = [heap EXCEPT ![o].properties =
                           [x \in DOMAIN old \cup {p} |-> IF x = p THEN v ELSE old[x]]]
             /\ ret' = Ret("set_event_params", TRUE, 0)
     ELSE /\ ret' = Ret("set_event_params", FALSE, 0)
          /\ UNCHANGED heap
  /\ before' = NoBefore
  /\ UNCHANGED <<geom, input, pc, src, history_lines, events, footer_lines, attrs, n_events,
                 event_counter, filename, file, clock>>

\* set_event_params({k: {i: {'property': p, 'val': v}}}) with the integer
\* sub-key i (layer i of the model is layers[i - 1] of the code): the same
\* assignment properties[sub_key] = val as for a string sub-key
SetEventParamsIndexed(k, i, p, v) ==
  /\ pc = "ready"
  /\ nops < MaxOps
  /\ nops' = nops + 1
  /\ IF k \in DictKeys(events)
     THEN LET o == events.at[k]
              old == heap[o].indexed
          IN /\ heap' = [heap EXCEPT ![o].indexed =
                           [x \in DOMAIN old \cup {i} |->
                              IF x = i THEN [property |-> p, val |-> v] ELSE old[x]]]
             /\ ret' = Ret("set_event_params", TRUE, 0)
     ELSE /\ ret' = Ret("set_event_params", FALSE, 0)
          /\ UNCHANGED heap
  /\ before' = NoBefore
  /\ UNCHANGED <<geom, input, pc, src, history_lines, events, footer_lines, attrs, n_events,
                 event_counter, filename, file, clock>>

\* change_event_params({k: {p: d}}) for a property name p (layer = 0), or
\* change_event_params({k: {layer - 1: {'property': p, 'val': d}}}) for a layer index
ChangeEventParams(k, layer, p, d) ==
  /\ pc = "ready"
  /\ nops < MaxOps
  /\ nops' = nops + 1
  /\ IF k \notin DictKeys(events)
     THEN /\ ret' = Ret("change_event_params", FALSE, 0)
          /\ UNCHANGED heap
     ELSE LET o == events.at[k]
          IN IF layer = 0
             THEN IF p \in DOMAIN heap[o].properties
                  THEN /\ heap' = [heap EXCEPT ![o].properties[p] = @ + d]
                       /\ ret' = Ret("change_event_params", TRUE, 0)
                  ELSE /\ ret' = Ret("change_event_params", FALSE, 0)
                       /\ UNCHANGED heap
             ELSE IF layer <= Len(heap[o].layers) /\ p \in DOMAIN heap[o].layers[layer]
                  THEN /\ heap' = [heap EXCEPT ![o].layers[layer][p] = @ + d]
                       /\ ret' = Ret("change_event_params", TRUE, 0)
                  ELSE /\ ret' = Ret("change_event_params", FALSE, 0)
                       /\ UNCHANGED heap
  /\ before' = NoBefore
  /\ UNCHANGED <<geom, input, pc, src, history_lines, events, footer_lines, attrs, n_events,
                 event_counter, filename, file, clock>>

-----------------------------------------------------------------------------
(* The footer editor: set_origin, set_extent, change_cube_size, get_cube_size *)

\* what get_cube_size returns when no footer line holds the label: None
NoneVal == -1

\* self.footer_lines, made from the template when the object has none
EnsuredFooter == IF "footer_lines" \in attrs THEN footer_lines ELSE create_footer_from_template

\* the first line (1-based) with the label in it, 0 if there is none
FirstLabel(f, label) ==
  IF \E i \in 1..Len(f) : HasLabel(f[i], label)
  THEN CHOOSE i \in 1..Len(f) :
         HasLabel(f[i], label) /\ \A j \in 1..(i - 1) : ~HasLabel(f[j], label)
  ELSE 0

\* the loop of set_origin and set_extent: at the first line with labels[1] in
\* it, lines i, i + 1, i + 2 are assigned in turn; an index past the end raises
\* IndexError after the assignments before it
set_three(f, labels, vals) ==
  LET i == FirstLabel(f, labels[1])
  IN IF i = 0 THEN [ok |-> TRUE, footer |-> f]
     ELSE [ok |-> i + 2 <= Len(f),
           footer |-> [j \in 1..Len(f) |->
                         IF j \in i..(i + 2)
                         THEN Foot(labels[j - i + 1], Round2(vals[j - i + 1]), "sp4")
                         ELSE f[j]]]

\* l[0] + "=" + '%7.2f\r\n': the line keeps its text up to "="
CrLf(fmt) ==
  CASE fmt = "raw" -> "raw_crlf"
    [] fmt = "tpl" -> "tpl_crlf"
    [] fmt = "sp4" -> "sp4_crlf"
    [] OTHER -> fmt

IsCubeLine(line) ==
  HasLabel(line, "Geophysics Cube Size") \/ HasLabel(line, "Geology Cube Size")

\* the loop of change_cube_size
cube_lines_set(f, v) ==
  [j \in 1..Len(f) |->
     IF IsCubeLine(f[j]) THEN Foot(f[j].txt, Round2(v), CrLf(f[j].fmt)) ELSE f[j]]

\* set_origin(x, y, z)
SetOrigin(x, y, z) ==
  /\ pc = "ready"
  /\ nops < MaxOps
  /\ nops' = nops + 1
  /\ LET r == set_three(EnsuredFooter, <<"Origin X", "Origin Y", "Origin Z">>, <<x, y, z>>)
     IN /\ footer_lines' = r.footer
        /\ ret' = Ret("set_origin", r.ok, 0)
  /\ attrs' = attrs \cup {"footer_lines", "origin"}
  /\ geom' = [geom EXCEPT !.origin = <<x, y, z>>]
  /\ before' = NoBefore
  /\ UNCHANGED <<input, pc, src, history_lines, events, heap, n_events, event_counter,
                 filename, file, clock>>

\* set_extent(x, y, z)
SetExtent(x, y, z) ==
  /\ pc = "ready"
  /\ nops < MaxOps
  /\ nops' = nops + 1
  /\ LET r == set_three(EnsuredFooter, <<"Length X", "Length Y", "Length Z">>, <<x, y, z>>)
     IN /\ footer_lines' = r.footer
        /\ ret' = Ret("set_extent", r.ok, 0)
  /\ attrs' = attrs \cup {"footer_lines", "extent"}
  /\ geom' = [geom EXCEPT !.extent = <<x, y, z>>]
  /\ before' = NoBefore
  /\ UNCHANGED <<input, pc, src, history_lines, events, heap, n_events, event_counter,
                 filename, file, clock>>

\* change_cube_size(v)
ChangeCubeSize(v) ==
  /\ pc = "ready"
  /\ nops < MaxOps
  /\ nops' = nops + 1
  /\ footer_lines' = cube_lines_set(EnsuredFooter, v)
  /\ attrs' = attrs \cup {"footer_lines"}
  /\ ret' = Ret("change_cube_size", TRUE, 0)
  /\ before' = [NoBefore EXCEPT !.a = v]
  /\ UNCHANGED <<geom, input, pc, src, history_lines, events, heap, n_events, event_counter,
                 filename, file, clock>>

\* get_cube_size(type=t)
GetCubeSize(t) ==
  /\ pc = "ready"
  /\ nops < MaxOps
  /\ nops' = nops + 1
  /\ LET cube_string == IF t = "Geology" THEN "Geology Cube Size" ELSE "Geophysics Cube Size"
         i == FirstLabel(EnsuredFooter, cube_string)
     IN IF i = 0
        THEN /\ ret' = Ret("get_cube_size", TRUE, NoneVal)
             /\ attrs' = attrs \cup {"footer_lines"}
             /\ UNCHANGED geom
        ELSE /\ ret' = Ret("get_cube_size", TRUE, EnsuredFooter[i].num)
             /\ attrs' = attrs \cup {"footer_lines", "cube_size"}
             /\ geom' = [geom EXCEPT !.cube_size = EnsuredFooter[i].num]
  /\ footer_lines' = EnsuredFooter
  /\ before' = NoBefore
  /\ UNCHANGED <<input, pc, src, history_lines, events, heap, n_events, event_counter,
                 filename, file, clock>>

-----------------------------------------------------------------------------
(* Documents that are loaded or created, edited, reordered and written *)

\* an order number no loaded or added event has
AbsentKey == 5

\* the event headers of the texts loaded here: numbers in and out of ascending
\* order, a three-digit number, one event only
OrderLists ==
  { << EvHead(2, "FAULT"), EvHead(11, "STRATIGRAPHY") >>,
    << EvHead(11, "STRATIGRAPHY"), EvHead(2, "FAULT") >>,
    << EvHead(2, "STRATIGRAPHY"), EvHead(100, "FAULT") >>,
    << EvHead(11, "FAULT") >> }
TextsOrder == {MkText("pynoddy", evs, 1, StdFooter) : evs \in OrderLists}

FaultOpts ==
  [name |-> 7, pos |-> <<1000, 2000, 3000>>, dip_dir |-> 90000, dip |-> 60000, slip |-> 1000]

StratiOpts ==
  [num_layers |-> 1, layer_names |-> <<8>>, layer_thickness |-> <<1500>>]

\* the order numbers a caller names: those in use and one that is not
KeyArgs == DictKeys(events) \cup {AbsentKey}

\* the reorder_dicts of one or two items
ReorderDicts ==
  {<< <<k, v>> >> : k \in KeyArgs, v \in KeyArgs}
  \cup UNION {{<< <<k1, v1>>, <<k2, v2>> >> :
                  v1 \in DictKeys(events), k2 \in KeyArgs \ {k1}, v2 \in DictKeys(events)} :
              k1 \in DictKeys(events)}

InitOrder == input \in TextsOrder /\ InitObject

NextOrder ==
  \/ Load
  \/ CreateNew
  \/ AddEvent("fault", FaultOpts, FALSE, 0)
  \/ AddEvent("stratigraphy", StratiOpts, FALSE, 0)
  \/ AddEvent("fault", FaultOpts, TRUE, 2)
  \/ \E a \in KeyArgs, b \in KeyArgs : SwapEvents(a, b)
  \/ \E m \in ReorderDicts : ReorderEvents(m)
  \/ \E k \in KeyArgs : SetEventParams(k, "X", 7000)
  \/ \E k \in KeyArgs : ChangeEventParams(k, 0, "X", 1000)
  \/ \E k \in DictKeys(events) : ChangeEventParams(k, 1, "Height", 1000)
  \/ WriteHistory("a.his")

SpecOrder == InitOrder /\ [][NextOrder]_vars

-----------------------------------------------------------------------------
(* Documents whose footer is edited *)

\* the footer without its first line with the label
WithoutLine(f, label) ==
  LET i == FirstLabel(f, label)
  IN IF i = 0 THEN f ELSE SubSeq(f, 1, i - 1) \o SubSeq(f, i + 1, Len(f))

\* the footer cut off after its first line with the label
CutAfter(f, label) == SubSeq(f, 1, FirstLabel(f, label))

\* footers of the texts loaded here: the fixed format, one geometry line
\* missing, and a footer that ends inside the origin lines
Footers ==
  { StdFooter,
    WithoutLine(StdFooter, "Origin Y"),
    WithoutLine(StdFooter, "Length Z"),
    WithoutLine(StdFooter, "Geology Cube Size"),
    CutAfter(StdFooter, "Origin Y") }

TextsFooter == {MkText("pynoddy", << EvHead(2, "FAULT") >>, 1, f) : f \in Footers}

\* cube sizes in thousandths: 25.0 and 12.346
CubeSizes == {25000, 12346}
CubeTypes == {"Geology", "Geophysics"}

InitFooter == input \in TextsFooter /\ InitObject

NextFooter ==
  \/ Load
  \/ CreateNew
  \/ SetOrigin(1000, 2000, 3004)
  \/ SetExtent(4000, 5000, 6000)
  \/ \E v \in CubeSizes : ChangeCubeSize(v)
  \/ \E t \in CubeTypes : GetCubeSize(t)
  \/ WriteHistory("a.his")

SpecFooter == InitFooter /\ [][NextFooter]_vars

-----------------------------------------------------------------------------
(* Documents that events are built into *)

FaultTopOpts ==
  [name |-> 7, pos |-> <<0, 0, Top>>, dip_dir |-> 45000, dip |-> 60000, slip |-> 500000]

\* no 'slip'
FaultNoSlipOpts ==
  [name |-> 7, pos |-> <<1000, 2000, 3000>>, dip_dir |-> 90000, dip |-> 60000]

FoldOpts ==
  [name |-> 9, pos |-> <<1000, 2000, 3000>>, wavelength |-> 500000, amplitude |-> 100000]

TiltOpts ==
  [name |-> 10, pos |-> <<1000, 2000, 3000>>, rotation |-> 10000,
   plunge_direction |-> 20000, plunge |-> 30000]

\* thicknesses 100, 200, 150
Strati3Opts ==
  [num_layers |-> 3, layer_names |-> <<1, 2, 3>>, layer_thickness |-> <<100000, 200000, 150000>>]

\* thicknesses 1.26, 1.26
StratiFineOpts ==
  [num_layers |-> 2, layer_names |-> <<4, 5>>, layer_thickness |-> <<1260, 1260>>,
   density |-> <<2500, 2600>>]

\* only two of the three names
StratiShortOpts ==
  [num_layers |-> 3, layer_names |-> <<1, 2>>, layer_thickness |-> <<100000, 200000, 150000>>]

UnconformityOpts ==
  [name |-> 11, pos |-> <<1000, 2000, 3000>>, dip_direction |-> 90000, dip |-> 10000,
   num_layers |-> 2, layer_names |-> <<6, 7>>, layer_thickness |-> <<100000, 250000>>]

TextsBuild == {MkText("pynoddy", << EvHead(2, "FAULT") >>, 1, StdFooter)}

InitBuild == input \in TextsBuild /\ InitObject

NextBuild ==
  \/ Load
  \/ CreateNew
  \/ SetExtent(4000, 5000, 6000)
  \/ AddEvent("fault", FaultOpts, FALSE, 0)
  \/ AddEvent("fault", FaultTopOpts, FALSE, 0)
  \/ AddEvent("fault", FaultNoSlipOpts, FALSE, 0)
  \/ AddEvent("dyke", FaultOpts, TRUE, 1)
  \/ AddEvent("fold", FoldOpts, FALSE, 0)
  \/ AddEvent("tilt", TiltOpts, FALSE, 0)
  \/ AddEvent("unconformity", UnconformityOpts, FALSE, 0)
  \/ AddEvent("stratigraphy", Strati3Opts, FALSE, 0)
  \/ AddEvent("stratigraphy", StratiFineOpts, TRUE, 1)
  \/ AddEvent("stratigraphy", StratiShortOpts, FALSE, 0)
  \/ WriteHistory("a.his")

SpecBuild == InitBuild /\ [][NextBuild]_vars

-----------------------------------------------------------------------------
(* Well-formed and malformed texts that are loaded *)

\* three events of which one has no decoder, and shorter lists
LoadLists ==
  { << EvHead(1, "STRATIGRAPHY"), EvHead(2, "FAULT"), EvHead(3, "IMPORT") >>,
    << EvHead(1, "STRATIGRAPHY"), EvHead(2, "IMPORT"), EvHead(3, "FAULT") >>,
    << EvHead(2, "IMPORT"), EvHead(100, "FAULT") >>,
    << EvHead(1, "IMPORT") >> }
  \cup EvLists

\* the text without its footer marker line, with a marker line that lacks the
\* "#", without its 'No of Events' line, and cut off where the footer starts
WithoutMarker(text) == SelectSeq(text, LAMBDA l : ~HasBlockOptions(l))
BareMarker(text) ==
  [i \in 1..Len(text) |->
     IF HasBlockOptions(text[i]) THEN L("marker", "BlockOptions", 0, "raw") ELSE text[i]]
WithoutCount(text) == SelectSeq(text, LAMBDA l : ~HasNoOfEvents(l))
WithoutFooter(text) == SubSeq(text, 1, SetMax(MarkerIdx(text)) - 1)

TextsLoad ==
  UNION {LET t == MkText("pynoddy", evs, 1, StdFooter)
         IN {t, WithoutMarker(t), BareMarker(t), WithoutCount(t), WithoutFooter(t)} :
         evs \in LoadLists}

InitLoad == input \in TextsLoad /\ InitObject

NextLoad ==
  \/ Load
  \/ CreateNew
  \/ WriteHistory("a.his")

SpecLoad == InitLoad /\ [][NextLoad]_vars

-----------------------------------------------------------------------------
(* Documents whose event parameters are set and changed *)

ParamValues == {5000, 7000}

InitEdit == input \in TextsOrder /\ InitObject

NextEdit ==
  \/ Load
  \/ \E k \in KeyArgs, p \in {"X", "Name"}, v \in ParamValues : SetEventParams(k, p, v)
  \/ \E k \in KeyArgs, v \in ParamValues : SetEventParamsIndexed(k, 1, "Height", v)
  \/ \E k \in KeyArgs : ChangeEventParams(k, 0, "X", 1000)
  \/ \E k \in DictKeys(events) : ChangeEventParams(k, 1, "Height", 1000)

SpecEdit == InitEdit /\ [][NextEdit]_vars

-----------------------------------------------------------------------------
(* Documents that are built or loaded, written and loaded again *)

TextsWrite ==
  {MkText("pynoddy", evs, nb, StdFooter) : evs \in OrderLists, nb \in 0..MaxBlank}

InitWrite == input \in TextsWrite /\ InitObject

NextWrite ==
  \/ Load
  \/ CreateNew
  \/ AddEvent("fault", FaultOpts, FALSE, 0)
  \/ AddEvent("stratigraphy", StratiOpts, FALSE, 0)
  \/ WriteHistory("a.his")
  \/ Reload

SpecWrite == InitWrite /\ [][NextWrite]_vars

-----------------------------------------------------------------------------
(* The bulk writer createPyNoddyHistoryFile.  Its arguments are the number   *)
(* of faults, the number of layer names and the number of trace points of    *)
(* each fault; a fault's values are taken from its index.                    *)

BulkName == "faultmodel.his"

\* the 'Event #1 = STRATIGRAPHY' block: 'Num Layers', one expanded layer block
\* per name (abridged to its substituted lines), 'Name = Strat'
BulkStratigraphy(nLayers) ==
  << EvHdr(1, "STRATIGRAPHY", "tab"), Prop("Num Layers", nLayers, "raw") >>
  \o Concat([i \in 1..nLayers |->
               << Prop("Unit Name", i, "raw"), Prop("Height", 1000 * i, "raw"),
                  Prop("Density", 2500, "raw") >>])
  \o << Prop("Name", 0, "raw") >>

\* the block of the fault with loop index i (0-based): header numbered i + 2,
\* fault_start, the trace points, fault_end (abridged to its substituted lines)
BulkFault(i, nPoints) ==
  << EvHdr(i + 2, "FAULT", "tab"), Prop("X", 1000 * (i + 1), "raw"),
     Prop("Num Points", nPoints, "raw") >>
  \o Concat([q \in 1..nPoints |->
               << Prop("Point X", 1000 * q, "raw"), Prop("Point Y", 2000 * q, "raw") >>])
  \o << Prop("Name", i, "raw") >>

\* footer_expanded with the default origin, extent and cubesize put in
BulkFooter ==
  [j \in 1..Len(create_footer_from_template) |->
     LET l == create_footer_from_template[j]
     IN IF l.kind # "foot" THEN l
        ELSE IF l.txt = "Origin Z" THEN Foot(l.txt, 4000000, "str")
        ELSE IF l.txt = "Length X" THEN Foot(l.txt, 9000000, "str")
        ELSE IF l.txt = "Length Y" THEN Foot(l.txt, 9400000, "str")
        ELSE IF l.txt = "Length Z" THEN Foot(l.txt, 4000000, "str")
        ELSE IF l.txt \in {"Geology Cube Size", "Geophysics Cube Size"}
             THEN Foot(l.txt, 150000, "str")
        ELSE l]

\* mutant: the count line written with the number of faults
createPyNoddyHistoryFile_faults_only(args) ==
  << FilenameLine("simple_two_faults.his", "raw"), DateLine(0), FileTypeLine, VersionLine(711) >>
  \o << CountLine(args.nFaults) >>
  \o BulkStratigraphy(args.nLayers)
  \o Concat([j \in 1..args.nFaults |-> BulkFault(j - 1, args.nFaultPoints[j])])
  \o BulkFooter

\* the lines createPyNoddyHistoryFile writes, in order
createPyNoddyHistoryFile(args) ==
  << FilenameLine("simple_two_faults.his", "raw"), DateLine(0), FileTypeLine, VersionLine(711) >>
  \o << CountLine(args.nFaults + 1) >>
  \o BulkStratigraphy(args.nLayers)
  \o Concat([j \in 1..args.nFaults |-> BulkFault(j - 1, args.nFaultPoints[j])])
  \o BulkFooter

BulkInputs ==
  UNION {[nFaults : {n}, nLayers : 0..MaxLayers, nFaultPoints : [1..n -> 0..MaxPoints]] :
         n \in 0..MaxFaults}

\* createPyNoddyHistoryFile(...) called with the arguments in input
CreatePyNoddyHistoryFile ==
  /\ pc = "start"
  /\ file = NoFile
  /\ file' = [name |-> BulkName, lines |-> createPyNoddyHistoryFile(input)]
  /\ ret' = Ret("createPyNoddyHistoryFile", TRUE, 0)
  /\ UNCHANGED <<geom, input, pc, src, history_lines, events, heap, footer_lines, attrs,
                 n_events, event_counter, filename, clock, nops, before>>

InitBulk == input \in BulkInputs /\ InitObject

NextBulk == CreatePyNoddyHistoryFile

SpecBulk == InitBulk /\ [][NextBulk]_vars

-----------------------------------------------------------------------------
(* Round trips: load a text, write it, load what was written, write again *)

InitRT == input \in Texts /\ InitObject

NextRT ==
  \/ Load
  \/ Reload
  \/ \E fn \in FileNames : WriteHistory(fn)

SpecRT == InitRT /\ [][NextRT]_vars

-----------------------------------------------------------------------------
(* Properties of the round trip *)

\* positions (1-based) in a text
FirstEvent(text) == CHOOSE i \in EventIdx(text) : \A j \in EventIdx(text) : i <= j
MarkerAt(text) == SetMax(MarkerIdx(text))

AllSupported(text) == \A i \in EventIdx(text) : Supported(text[i].txt)

\* the event headers carry distinct numbers of at most two digits, in ascending order
AscendingNumbers(text) ==
  \A i, j \in EventIdx(text) :
    /\ text[i].num < 100
    /\ i < j => text[i].num < text[j].num

\* two texts that differ at most in their save-timestamp lines
SameExceptDate(a, b) ==
  /\ Len(a) = Len(b)
  /\ \A i \in 1..Len(a) : a[i] = b[i] \/ (a[i].kind = "date" /\ b[i].kind = "date")

\* the text with one blank line put before the footer marker if none is there
WithBlankBeforeMarker(text) ==
  LET m == MarkerAt(text)
  IN IF text[m - 1] = Blank THEN text
     ELSE SubSeq(text, 1, m - 1) \o << Blank >> \o SubSeq(text, m, Len(text))

\* the object was loaded from the input text and write_history has been called once
WrittenOnceFromInput ==
  pc = "ready" /\ src = "input" /\ file # NoFile /\ clock = 2

\* C1 as claimed: load then write reproduces the input's lines, except only for
\* the save-timestamp line and one blank line added before '#BlockOptions' if
\* it was missing; the file name, FileType and Version lines, every event line
\* and every footer line are reproduced unchanged.
C1_AsClaimed ==
  (WrittenOnceFromInput /\ AllSupported(input))
    => SameExceptDate(WithBlankBeforeMarker(input), file.lines)

\* C1: for a text of supported events whose headers carry distinct ascending
\* numbers of at most two digits, load then write gives: the regenerated
\* header (file name line naming the file written, save-timestamp,
\* FileType = 111, Version = 7.11, two blank lines), the 'No of Events' line,
\* the input's lines from the first event header up to two lines before
\* '#BlockOptions' unchanged, a blank line if the last of them is not blank,
\* and the input's lines from '#BlockOptions' on unchanged.
C1_RoundTrip ==
  (WrittenOnceFromInput /\ AllSupported(input) /\ AscendingNumbers(input))
    => LET m == MarkerAt(input)
           body == SubSeq(input, FirstEvent(input), m - 2)
       IN /\ SameExceptDate(SubSeq(file.lines, 1, 6), create_header(file.name, 0))
          /\ SubSeq(file.lines, 7, Len(file.lines)) =
               << CountLine(Cardinality(EventIdx(input))) >>
               \o body
               \o (IF body[Len(body)] = Blank THEN <<>> ELSE << Blank >>)
               \o SubSeq(input, m, Len(input))

\* C1 witness: a text with no blank line before '#BlockOptions' and a header
\* that is not in write_history's form has been loaded and written
C1_Witness ==
  /\ WrittenOnceFromInput /\ AllSupported(input) /\ AscendingNumbers(input)
  /\ Cardinality(EventIdx(input)) = 2
  /\ input[MarkerAt(input) - 1] # Blank
  /\ input[1] = FilenameLine("orig.his", "raw")

\* the object was loaded from the file write_history wrote, a file whose
\* header names the file itself
LoadedFromWritten ==
  /\ pc = "ready" /\ src = "file" /\ history_lines = file.lines
  /\ file.lines[1] = FilenameLine(file.name, "sp")

\* the number of blank lines directly before the footer marker
RECURSIVE BlanksBefore(_, _)
BlanksBefore(text, i) ==
  IF i >= 1 /\ text[i] = Blank THEN 1 + BlanksBefore(text, i - 1) ELSE 0

BlanksBeforeMarker(text) == BlanksBefore(text, MarkerAt(text) - 1)

-----------------------------------------------------------------------------
(* Properties of the written file after edits and reordering *)

Keys == DictKeys(events)
At(k) == heap[events.at[k]]
WroteLast == pc = "ready" /\ ret.op = "write_history" /\ ret.ok

RECURSIVE SumLines(_)
SumLines(S) ==
  IF S = {} THEN 0
  ELSE LET k == CHOOSE x \in S : TRUE
       IN Len(At(k).event_lines) + SumLines(S \ {k})

\* C3: whenever write_history has just returned, the file holds exactly one
\* 'No of Events' line; its value is the number of entries of the events
\* mapping, which is the number of event header lines written after it, even
\* when the count read at load time differs.
C3_CountConsistent ==
  WroteLast =>
    LET cnt == {i \in 1..Len(file.lines) : HasNoOfEvents(file.lines[i])}
    IN /\ Cardinality(cnt) = 1
       /\ \A i \in cnt :
            /\ file.lines[i].num = Cardinality(Keys)
            /\ file.lines[i].num =
                 Cardinality({j \in (i + 1)..Len(file.lines) : HasEventHash(file.lines[j])})

\* C3 witness: a file written from a loaded document whose mapping no longer
\* has the number of entries counted at load time
C3_Witness ==
  /\ WroteLast
  /\ "n_events" \in attrs
  /\ n_events # Cardinality(Keys)
  /\ \E i \in 1..Len(file.lines) : HasNoOfEvents(file.lines[i])

\* C4: whenever write_history has just returned, the seven lines of header and
\* event count are followed by the block of each event, whole, at the offset
\* given by the blocks of all smaller order numbers, and the line after the
\* last block is the blank line or the marker that opens the footer.
C4_AscendingBlocks ==
  WroteLast =>
    /\ HasNoOfEvents(file.lines[7])
    /\ \A k \in Keys :
         LET start == 7 + SumLines({j \in Keys : j < k})
         IN SubSeq(file.lines, start + 1, start + Len(At(k).event_lines)) = At(k).event_lines
    /\ LET end == 7 + SumLines(Keys)
       IN \/ HasBlockOptions(file.lines[end + 1])
          \/ file.lines[end + 1] = Blank /\ HasBlockOptions(file.lines[end + 2])

\* C4 witness: a file written when the mapping's insertion order is not the
\* ascending order of its two or more order numbers
C4_Witness ==
  /\ WroteLast
  /\ Cardinality(Keys) >= 2
  /\ events.keys # SortedSeq(Keys)

\* C5 as claimed: once a document is built, and after every call, the record
\* under each order number k carries k in its 'Event #' line.
C5_AsClaimed ==
  pc = "ready" => \A k \in Keys : EmbeddedNum(At(k)) = k

\* a call to swap_events(a, b) that has returned normally has been made by this step
SwapStep == nops' = nops + 1 /\ ret'.op = "swap_events" /\ ret'.ok

\* C6 as claimed: swap_events(a, b) for existing a and b puts under b the record
\* that was at a and under a the record that was at b, both carrying their new
\* number, keeps every record's properties and layers and the key set, and
\* leaves every other entry and record as it was.
C6_AsClaimed ==
  [][SwapStep =>
       LET a == before'.a
           b == before'.b
       IN /\ events'.at[b] = events.at[a]
          /\ events'.at[a] = events.at[b]
          /\ EmbeddedNum(heap'[events'.at[a]]) = a
          /\ EmbeddedNum(heap'[events'.at[b]]) = b
          /\ \A o \in 1..Len(heap) :
               /\ heap'[o].properties = heap[o].properties
               /\ heap'[o].layers = heap[o].layers
          /\ DictKeys(events') = Keys
          /\ \A k \in Keys \ {a, b} :
               /\ events'.at[k] = events.at[k]
               /\ heap'[events.at[k]] = heap[events.at[k]]]_vars

\* C7 as claimed: a swap_events(a, b) that follows a swap_events(a, b) leaves
\* under every key the record that was there before the first of the two calls,
\* with the properties and the embedded number it had then.
C7_AsClaimed ==
  [][(/\ SwapStep
      /\ ret.op = "swap_events" /\ ret.ok
      /\ before'.a = before.a /\ before'.b = before.b)
     => /\ DictKeys(events') = DictKeys(before.events)
        /\ \A k \in DictKeys(before.events) :
             /\ events'.at[k] = before.events.at[k]
             /\ heap'[events'.at[k]].properties = before.heap[before.events.at[k]].properties
             /\ EmbeddedNum(heap'[events'.at[k]]) = EmbeddedNum(before.heap[before.events.at[k]])]_vars

\* the items of a reorder_dict whose key is an existing order number
Applied(m) == SelectSeq(m, LAMBDA it : it[1] \in Keys)
\* the dict is a permutation of existing order numbers
IsPermutation(m) ==
  /\ \A i \in 1..Len(m) : m[i][1] \in Keys
  /\ {m[i][1] : i \in 1..Len(m)} = {m[i][2] : i \in 1..Len(m)}

\* a call to reorder_events(before'.m) has been made by this step
ReorderStep == nops' = nops + 1 /\ ret'.op = "reorder_events"

-----------------------------------------------------------------------------
(* Properties of the footer editor *)

\* a call to get_cube_size directly after a change_cube_size(before.a)
GetAfterChange(t) == ret.op = "change_cube_size" /\ ret.ok /\ GetCubeSize(t)

\* C9 as claimed: on any document, get_cube_size of either type called after
\* change_cube_size(v) returns v.
C9_AsClaimed ==
  [][\A t \in CubeTypes : GetAfterChange(t) => ret'.val = before.a]_vars

\* the footer has a line for each of the two cube sizes
HasBothCubeLines(f) ==
  FirstLabel(f, "Geology Cube Size") # 0 /\ FirstLabel(f, "Geophysics Cube Size") # 0

\* r is v to two decimals: a multiple of 0.01 nearest to v
TwoDecimalsOf(r, v) == r % 10 = 0 /\ 2 * r - 2 * v <= 10 /\ 2 * v - 2 * r <= 10

\* C9: on a document whose footer holds both cube-size lines, get_cube_size of
\* either type called after change_cube_size(v) returns v rounded to two
\* decimals; for a type whose line the footer lacks it returns None.
C9_CubeSize ==
  [][\A t \in CubeTypes :
       GetAfterChange(t) =>
         /\ HasBothCubeLines(footer_lines) => TwoDecimalsOf(ret'.val, before.a)
         /\ FirstLabel(footer_lines, IF t = "Geology" THEN "Geology Cube Size"
                                     ELSE "Geophysics Cube Size") = 0
              => ret'.val = NoneVal]_vars

\* C9 witness: get_cube_size has returned 12.35 on a document whose footer
\* holds it in both cube-size lines, 12.346 having been passed to change_cube_size
C9_Witness ==
  /\ ret.op = "get_cube_size"
  /\ ret.val = 12350
  /\ HasBothCubeLines(footer_lines)
  /\ \A i \in 1..Len(footer_lines) : IsCubeLine(footer_lines[i]) => footer_lines[i].num = 12350

\* the labels each footer editing call may change
EditorLabels ==
  [set_origin |-> {"Origin X", "Origin Y", "Origin Z"},
   set_extent |-> {"Length X", "Length Y", "Length Z"},
   change_cube_size |-> {"Geology Cube Size", "Geophysics Cube Size"}]

\* C10 as claimed: whatever the footer holds, a call of set_origin, set_extent
\* or change_cube_size on a document that has a footer keeps the number of
\* footer lines, changes no line but those with its own labels, and changes no event.
C10_AsClaimed ==
  [][(/\ nops' = nops + 1
      /\ ret'.op \in DOMAIN EditorLabels
      /\ "footer_lines" \in attrs)
     => /\ Len(footer_lines') = Len(footer_lines)
        /\ \A i \in 1..Len(footer_lines) :
             footer_lines'[i] # footer_lines[i] =>
               footer_lines[i].kind = "foot" /\ footer_lines[i].txt \in EditorLabels[ret'.op]
        /\ events' = events
        /\ heap' = heap]_vars

-----------------------------------------------------------------------------
(* Properties of add_event *)

\* a call to add_event has been made by this step, with or without event_num
AddStep == nops' = nops + 1 /\ ret'.op = "add_event"
ImplicitAddStep == AddStep /\ before'.b = 0

\* C11: on a newly created document no call lowers the counter, and an
\* add_event without event_num that returns stores the new record under the
\* counter's new value, which is above the counter's value before the call and
\* so above every number handed out implicitly before.
C11_ImplicitNumbers ==
  [][(pc = "ready" /\ src = "new") =>
       /\ event_counter' >= event_counter
       /\ (ImplicitAddStep /\ ret'.ok) =>
            /\ ret'.val = event_counter'
            /\ ret'.val > event_counter
            /\ ret'.val \in DictKeys(events')
            /\ events'.at[ret'.val] = Len(heap')
            /\ Len(heap') = Len(heap) + 1]_vars

\* C11 witness: a new document after three add_event calls, the last without
\* event_num, whose record is under 3 next to the records under 1 and 2
C11_Witness ==
  /\ src = "new"
  /\ ret.op = "add_event" /\ ret.ok /\ before.b = 0
  /\ ret.val = 3
  /\ event_counter = 3
  /\ {1, 2, 3} \subseteq Keys

\* C12 as claimed: on a document loaded from text, add_event returns normally
\* and the events mapping then holds the new record under the given event_num,
\* or under a new implicit number when none was given.
C12_AsClaimed ==
  [][(AddStep /\ src = "input") =>
       /\ ret'.ok
       /\ Len(heap') = Len(heap) + 1
       /\ \E k \in DictKeys(events') :
            /\ events'.at[k] = Len(heap')
            /\ before'.b = 1 => k = before'.a]_vars

\* the add_event calls with an unsupported event_type or without a required key
BadAddEvent ==
  \/ AddEvent("dyke", FaultOpts, TRUE, 1)
  \/ AddEvent("fault", FaultNoSlipOpts, FALSE, 0)
  \/ AddEvent("stratigraphy", StratiShortOpts, FALSE, 0)

\* C13: an add_event call with an unsupported event_type or a missing required
\* key raises, and an add_event call that raises leaves the keys of the events
\* mapping, the record under each key and the footer lines as they were.
C13_FailedAddIntact ==
  [][/\ BadAddEvent => ~ret'.ok
     /\ (AddStep /\ ~ret'.ok) =>
          /\ events' = events
          /\ heap' = heap
          /\ footer_lines' = footer_lines
          /\ ("footer_lines" \in attrs') = ("footer_lines" \in attrs)]_vars

\* C13 witness: an add_event call has just raised on a new document that has
\* an event and footer lines
C13_Witness ==
  /\ src = "new"
  /\ ret.op = "add_event" /\ ~ret.ok
  /\ Keys # {}
  /\ "footer_lines" \in attrs

\* the z-extent of the document: the 'Length Z' of its footer
TopExtent ==
  LET f == EnsuredFooter
  IN f[FirstLabel(f, "Length Z")].num

\* C14 as claimed: add_event('fault', ...) with pos (0, 0, 'top'), dip_dir 45
\* returns normally and the new record has Z equal to the document's z-extent
\* and Dip Direction 45.
C14_AsClaimed ==
  [][(src = "new" /\ AddEvent("fault", FaultTopOpts, FALSE, 0)) =>
       /\ ret'.ok
       /\ Len(heap') = Len(heap) + 1
       /\ heap'[Len(heap')].properties["Z"] = TopExtent
       /\ heap'[Len(heap')].properties["Dip Direction"] = 45000]_vars

\* sum of the first i thicknesses
RECURSIVE RunningSum(_, _)
RunningSum(t, i) == IF i = 0 THEN 0 ELSE RunningSum(t, i - 1) + t[i]

\* r is v to one decimal: a multiple of 0.1 nearest to v
OneDecimalOf(r, v) == r % 100 = 0 /\ 2 * r - 2 * v <= 100 /\ 2 * v - 2 * r <= 100

\* the record add_event has just built has one layer per thickness, in input
\* order, each with a height related to the running sum by Rel
LayersBuilt(opts, Rel(_, _)) ==
  LET ev == heap'[Len(heap')]
  IN /\ ret'.ok
     /\ Len(heap') = Len(heap) + 1
     /\ Len(ev.layers) = opts["num_layers"]
     /\ \A i \in 1..opts["num_layers"] :
          /\ ev.layers[i]["Unit Name"] = opts["layer_names"][i]
          /\ Rel(ev.layers[i]["Height"], RunningSum(opts["layer_thickness"], i))

-----------------------------------------------------------------------------
(* Properties of loading *)

\* NoddyHistory(input) has just returned or raised
JustLoaded == ret.op = "load"

\* the event headers of a text whose type has a decoder
SupportedIdx(text) == {i \in EventIdx(text) : Supported(text[i].txt)}

\* a text with the footer marker, the event count, event headers with distinct
\* numbers, and some header whose type has no decoder
HasUnsupported(text) ==
  /\ \E i \in 1..Len(text) : HasHashBlockOptions(text[i])
  /\ CountIdx(text) # {}
  /\ \A i, j \in EventIdx(text) : i # j => text[i].num # text[j].num
  /\ \E i \in EventIdx(text) : ~Supported(text[i].txt)

\* C16 as claimed: loading a text in which some event header has a type with no
\* decoder completes, and the events mapping then holds exactly the supported
\* events, each under the number of its header.
C16_AsClaimed ==
  (JustLoaded /\ HasUnsupported(input)) =>
    /\ ret.ok /\ pc = "ready"
    /\ Cardinality(Keys) = Cardinality(SupportedIdx(input))
    /\ \A i \in SupportedIdx(input) :
         /\ input[i].num \in Keys
         /\ At(input[i].num).event_lines[1] = input[i]

\* C17 as claimed: loading a text without a '#BlockOptions' line raises and
\* gives no document.
C17_AsClaimed ==
  (JustLoaded /\ \A i \in 1..Len(input) : ~HasHashBlockOptions(input[i])) =>
    ~ret.ok /\ pc = "error"

\* the text has events but nothing from the footer marker on
HasNoFooter(text) ==
  /\ EventIdx(text) # {}
  /\ \A i \in 1..Len(text) : ~HasBlockOptions(text[i]) /\ text[i].kind # "foot"

\* C18 as claimed: loading a text that has no footer succeeds and the
\* document's footer lines are those of the built-in template.
C18_AsClaimed ==
  (JustLoaded /\ HasNoFooter(input)) =>
    /\ ret.ok /\ pc = "ready"
    /\ footer_lines = create_footer_from_template

\* C18: loading a text with no line holding 'BlockOptions' raises; the footer
\* of a loaded document is the text from its first '#BlockOptions' line on (its
\* last line when no line has the '#'); the template footer is what
\* write_history gives a newly created document.
C18_FooterFallback ==
  /\ (JustLoaded /\ \A i \in 1..Len(input) : ~HasBlockOptions(input[i])) =>
       ~ret.ok /\ pc = "error"
  /\ (JustLoaded /\ ret.ok) =>
       LET hits == {i \in 1..Len(input) : HasHashBlockOptions(input[i])}
       IN IF hits = {} THEN footer_lines = << input[Len(input)] >>
          ELSE \E i \in hits :
                 /\ \A j \in hits : i <= j
                 /\ footer_lines = SubSeq(input, i, Len(input))
  /\ (WroteLast /\ src = "new") =>
       /\ footer_lines = create_footer_from_template
       /\ SubSeq(file.lines, Len(file.lines) - Len(footer_lines) + 1, Len(file.lines))
            = create_footer_from_template

\* C18 witness: the load of a text with events and no footer has raised
C18_Witness ==
  /\ JustLoaded /\ ~ret.ok /\ pc = "error"
  /\ HasNoFooter(input)

\* C19 as claimed: loading a text with event headers and the footer marker but
\* no 'No of Events' line raises and gives no document.
C19_AsClaimed ==
  (/\ JustLoaded
   /\ EventIdx(input) # {}
   /\ \E i \in 1..Len(input) : HasHashBlockOptions(input[i])
   /\ CountIdx(input) = {}) =>
    ~ret.ok /\ pc = "error"

-----------------------------------------------------------------------------
(* Properties of set_event_params *)

\* C20 as claimed: set_event_params with the integer sub-key i and the value
\* {'property': p, 'val': v} sets property p of layer i of event k to v and
\* adds no entry keyed by i to the properties of the event; with a string
\* sub-key it sets that property of the event to the value.
C20_AsClaimed ==
  [][\A k \in DictKeys(events), v \in ParamValues :
       /\ (SetEventParamsIndexed(k, 1, "Height", v) /\ Len(heap[events.at[k]].layers) >= 1) =>
            /\ ret'.ok
            /\ heap'[events.at[k]].layers[1]["Height"] = v
            /\ DOMAIN heap'[events.at[k]].indexed = DOMAIN heap[events.at[k]].indexed
       /\ \A p \in {"X", "Name"} :
            SetEventParams(k, p, v) =>
              ret'.ok /\ heap'[events.at[k]].properties[p] = v]_vars

-----------------------------------------------------------------------------
(* Properties of the written file's separator line *)

\* the header, count line, event lines and footer lines of the document in the
\* order write_history puts them, as of the write that has just returned
Assembled ==
  LET ks == SortedSeq(Keys)
  IN create_header(filename, clock - 1)
     \o << CountLine(Cardinality(Keys)) >>
     \o Concat([j \in 1..Len(ks) |-> At(ks[j]).event_lines])
     \o footer_lines

\* C21: whenever write_history has just returned, every '#BlockOptions' line of
\* the file has an empty line directly before it, and the file is the
\* document's header, count, event and footer lines with exactly one empty
\* line put before the marker when the line before it is not empty, and with
\* nothing added when it is.
C21_BlankSeparator ==
  WroteLast =>
    /\ \A i \in 1..Len(file.lines) :
         HasHashBlockOptions(file.lines[i]) => (i > 1 /\ file.lines[i - 1] = Blank)
    /\ LET a == Assembled
           ms == {j \in 1..Len(a) : HasHashBlockOptions(a[j])}
       IN /\ Cardinality(ms) = 1
          /\ \A j \in ms :
               /\ j > 1
               /\ file.lines = IF a[j - 1] = Blank THEN a
                               ELSE SubSeq(a, 1, j - 1) \o << Blank >> \o SubSeq(a, j, Len(a))

\* C21 witness: a document loaded from a text with no empty line before the
\* marker has been written, and the file is one line longer than its parts
C21_Witness ==
  /\ WroteLast /\ src = "input"
  /\ BlanksBeforeMarker(input) = 0
  /\ Len(file.lines) = Len(Assembled) + 1

-----------------------------------------------------------------------------
(* Properties of the event line spans *)

\* C22 as claimed: after a successful load the spans of determine_events
\* (0-based, inclusive) are contiguous, the last one ends two lines before the
\* footer marker, every span has line_start <= line_end, and every line of an
\* event, from the first header to the last non-empty line before the marker,
\* lies in a span.
C22_AsClaimed ==
  (JustLoaded /\ ret.ok) =>
    LET raw == raw_events(history_lines)
        m == MarkerAt(history_lines)
    IN /\ \A j \in 1..(Len(raw) - 1) : raw[j].line_end = raw[j + 1].line_start - 1
       /\ raw[Len(raw)].line_end = (m - 1) - 2
       /\ \A j \in 1..Len(raw) : raw[j].line_start <= raw[j].line_end
       /\ \A i \in FirstEvent(history_lines)..(m - 1) :
            history_lines[i] # Blank =>
              \E j \in 1..Len(raw) : raw[j].line_start <= i - 1 /\ i - 1 <= raw[j].line_end

-----------------------------------------------------------------------------
(* Properties of the declared order numbers *)

\* C23 as claimed: after a successful load every event header of a supported
\* type is stored under the number it declares, whatever its number of digits,
\* and headers with pairwise distinct numbers give as many entries as there
\* are supported headers.
C23_AsClaimed ==
  (JustLoaded /\ ret.ok) =>
    LET sup == SupportedIdx(history_lines)
    IN /\ \A i \in sup :
            /\ history_lines[i].num \in Keys
            /\ At(history_lines[i].num).event_lines[1] = history_lines[i]
       /\ (\A i, j \in sup : i # j => history_lines[i].num # history_lines[j].num)
            => Cardinality(Keys) = Cardinality(sup)

-----------------------------------------------------------------------------
(* Properties of change_event_params *)

\* the record under every order number but k, the key set and the footer are
\* as they were before the step
OthersUnchanged(k) ==
  /\ events' = events
  /\ footer_lines' = footer_lines
  /\ \A k2 \in Keys \ {k} : heap'[events.at[k2]] = heap[events.at[k2]]

\* C24 as claimed: change_event_params({k: {'X': d}}) on an event with property
\* X replaces it by its old value plus d, and with the sub-key of the first
\* layer and {'property': 'Height', 'val': d} replaces that layer's Height by
\* its old value plus d; the other properties and layers of the event, every
\* other event, the key set and the footer are unchanged.
C24_AsClaimed ==
  [][\A k \in Keys :
       /\ (ChangeEventParams(k, 0, "X", 1000) /\ "X" \in DOMAIN At(k).properties) =>
            /\ ret'.ok
            /\ heap'[events.at[k]] = [At(k) EXCEPT !.properties["X"] = @ + 1000]
            /\ OthersUnchanged(k)
       /\ (ChangeEventParams(k, 1, "Height", 1000)
              /\ Len(At(k).layers) >= 1 /\ "Height" \in DOMAIN At(k).layers[1]) =>
            /\ ret'.ok
            /\ heap'[events.at[k]] = [At(k) EXCEPT !.layers[1]["Height"] = @ + 1000]
            /\ OthersUnchanged(k)]_vars

-----------------------------------------------------------------------------
(* Properties of the bulk writer *)

BulkWritten == ret.op = "createPyNoddyHistoryFile"

\* C25: the file createPyNoddyHistoryFile writes for n faults has one
\* 'No of Events' line, with value n + 1; after it exactly n + 1 event headers:
\* first STRATIGRAPHY numbered 1, then FAULT numbered 2, ..., n + 1 in that
\* order; after them the footer, which ends the file.
C25_BulkStructure ==
  BulkWritten =>
    LET f == file.lines
        n == input.nFaults
        hs == SortedSeq(EventIdx(f))
    IN /\ Cardinality(CountIdx(f)) = 1
       /\ \A c \in CountIdx(f) :
            /\ f[c].num = n + 1
            /\ f[c].num = Len(hs)
            /\ \A j \in 1..Len(hs) : c < hs[j]
       /\ Len(hs) = n + 1
       /\ f[hs[1]] = EvHdr(1, "STRATIGRAPHY", "tab")
       /\ \A j \in 2..Len(hs) : f[hs[j]] = EvHdr(j, "FAULT", "tab")
       /\ Cardinality(MarkerIdx(f)) = 1
       /\ \A m \in MarkerIdx(f) :
            /\ \A j \in 1..Len(hs) : hs[j] < m
            /\ HasHashBlockOptions(f[m])
            /\ SubSeq(f, m - 1, Len(f)) = BulkFooter

\* C25 witness: a file has been written for three faults, with trace points
C25_Witness ==
  /\ BulkWritten
  /\ input.nFaults = 3
  /\ input.nFaultPoints[2] = 2
  /\ Cardinality(EventIdx(file.lines)) = 4

-----------------------------------------------------------------------------
(* Properties of the records add_event builds *)

\* C26 as claimed: on a new document, every record add_event has stored is of
\* the class determine_events makes for an event of the record's type tag.
C26_AsClaimed ==
  src = "new" =>
    \A k \in Keys :
      /\ Supported(At(k).event_type)
      /\ At(k).cls = ClassOf(At(k).event_type)[2]

\* C27 as claimed: on a new document, a successful add_event call, without
\* event_num or with an event_num that is not in use when the call is made,
\* leaves every record under its order number and adds one entry.
C27_AsClaimed ==
  [][(src = "new" /\ AddStep /\ ret'.ok /\ (before'.b = 1 => before'.a \notin Keys)) =>
       /\ \A k \in Keys : k \in DictKeys(events') /\ events'.at[k] = events.at[k]
       /\ Cardinality(DictKeys(events')) = Cardinality(Keys) + 1]_vars

-----------------------------------------------------------------------------
(* Properties of reorder_events with an arbitrary mapping *)

\* no record is stored under two order numbers
NoAliasing(d) == \A a, b \in DictKeys(d) : a # b => d.at[a] # d.at[b]

\* C28 as claimed: after reorder_events with a mapping whose keys and values
\* are existing order numbers, on a document in which no record is stored
\* twice, no record is stored under two order numbers, every record stored
\* before is still stored, and the number of entries is unchanged.
C28_AsClaimed ==
  [][(/\ ReorderStep
      /\ NoAliasing(events)
      /\ \A i \in 1..Len(before'.m) : before'.m[i][1] \in Keys /\ before'.m[i][2] \in Keys) =>
       /\ NoAliasing(events')
       /\ \A k \in Keys : \E k2 \in DictKeys(events') : events'.at[k2] = events.at[k]
       /\ Cardinality(DictKeys(events')) = Cardinality(Keys)]_vars

-----------------------------------------------------------------------------
(* Properties of loading a written file *)

\* C29 as claimed: loading the file write_history has just written, from a
\* loaded or a new document, with or without events, returns normally and the
\* loaded document has the order numbers of the one that was written.
C29_AsClaimed ==
  [][(WroteLast /\ Reload) => (ret'.ok /\ pc' = "ready" /\ DictKeys(events') = Keys)]_vars

-----------------------------------------------------------------------------
(* Properties of the built event lines *)

\* the line still holds a template placeholder in place of its value
HasPlaceholder(line) == line.fmt = "$DENSITY$"

\* C30 as claimed: on a new document, no line of a record add_event has stored
\* holds a template placeholder.
C30_AsClaimed ==
  src = "new" =>
    \A k \in Keys : \A i \in 1..Len(At(k).event_lines) : ~HasPlaceholder(At(k).event_lines[i])

====
